---- MODULE Spec2Model ----
(***************************************************************************)
(* Tool registration and category filtering of mcp-digitalocean            *)
(* (package registry: parseServiceFilters, hasCategory, register*Tools,    *)
(* Register).                                                              *)
(*                                                                         *)
(* A string is a sequence of chunks; the chunk ":" is the separator        *)
(* character and every other chunk is a run of characters without ":".     *)
(* "droplets:all" is <<"droplets", ":", "all">>, "" is <<>>.               *)
(***************************************************************************)
EXTENDS Integers, Sequences, FiniteSets, TLC

\* Longest token sequence given on the command line.
MaxTokens == 3

\* Longest token sequence for one service when its gates are exercised.
MaxGateTokens == 2

\* Longest category list handed to hasCategory on its own.
MaxCategories == 3

Str(w) == <<w>>
Colon == ":"
WithCat(s, c) == <<s, Colon, c>>
EmptyCat(s) == <<s, Colon>>

\* supportedServices maps service names to their default category.
ServiceOrder ==
    << Str("apps"), Str("networking"), Str("droplets"), Str("accounts"),
       Str("spaces"), Str("databases"), Str("marketplace"), Str("insights"),
       Str("doks") >>

ServiceNames == {ServiceOrder[i] : i \in 1..Len(ServiceOrder)}

\* A catalog entry that has no case in the switch of Register.
supportedServices_extraKey ==
    [k \in ServiceNames \cup {Str("bogus")} |-> Str("basic")]

supportedServices == [k \in ServiceNames |-> Str("basic")]

\* The tool sets handed to AddTools, named by their constructors.
DropletCtors ==
    {"droplet.NewDropletTool", "droplet.NewDropletActionsTool",
     "droplet.NewImageTool", "droplet.NewImageActionsTool",
     "droplet.NewSizesTool"}
NetworkingCtors ==
    {"networking.NewLoadBalancersTool", "networking.NewFirewallTool",
     "networking.NewDomainsTool", "networking.NewCertificateTool",
     "networking.NewVPCTool", "networking.NewVPCPeeringTool",
     "networking.NewReservedIPTool", "networking.NewBYOIPPrefixTool"}
AccountCtors ==
    {"account.NewAccountTools", "account.NewBalanceTools",
     "account.NewBillingTools", "account.NewInvoiceTools",
     "account.NewKeysTool", "account.NewActionTools"}
SpacesCtors == {"spaces.NewSpacesKeysTool", "spaces.NewCDNTool"}
MarketplaceCtors == {"marketplace.NewOneClickTool"}
InsightsCtors ==
    {"insights.NewUptimeTool", "insights.NewUptimeCheckAlertTool",
     "insights.NewAlertPolicyTool"}
DoksCtors == {"doks.NewDoksTool"}
DatabasesCtors ==
    {"dbaas.NewClusterTool", "dbaas.NewPostgreSQLTool", "dbaas.NewMysqlTool",
     "dbaas.NewMongoTool", "dbaas.NewRedisTool", "dbaas.NewKafkaTool",
     "dbaas.NewOpenSearchTool", "dbaas.NewUserTool", "dbaas.NewFirewallTool"}
AppCtors == {"apps.NewAppPlatformTool"}
CommonCtors == {"common.NewRegionTools"}

Ctors ==
    DropletCtors \cup NetworkingCtors \cup AccountCtors \cup SpacesCtors
    \cup MarketplaceCtors \cup InsightsCtors \cup DoksCtors
    \cup DatabasesCtors \cup AppCtors \cup CommonCtors

\* strings.Index(s, ":"): 0-based position of the first ":" or -1.
RECURSIVE IndexFrom(_, _)
IndexFrom(s, i) ==
    IF i > Len(s) THEN -1
    ELSE IF s[i] = Colon THEN i - 1
    ELSE IndexFrom(s, i + 1)

Index(s) == IndexFrom(s, 1)

\* result[key] of a Go map: the zero value (nil slice) for a missing key.
MapGet(m, k) == IF k \in DOMAIN m THEN m[k] ELSE <<>>

\* result[key] = v
MapPut(m, k, v) == [x \in (DOMAIN m) \cup {k} |-> IF x = k THEN v ELSE m[x]]

EmptyMap == [x \in {} |-> <<>>]

\* A token with a category replaces the service's list instead of appending.
ParseToken_overwrite(result, svc) ==
    LET idx == Index(svc) IN
    IF idx # -1
    THEN LET serviceName == SubSeq(svc, 1, idx)
             category == SubSeq(svc, idx + 2, Len(svc))
         IN IF category # <<>>
            THEN MapPut(result, serviceName, <<category>>)
            ELSE result
    ELSE IF svc \notin DOMAIN result
         THEN MapPut(result, svc, <<Str("basic")>>)
         ELSE result

\* One iteration of the loop of parseServiceFilters.
ParseToken(result, svc) ==
    LET idx == Index(svc) IN
    IF idx # -1
    THEN LET serviceName == SubSeq(svc, 1, idx)
             category == SubSeq(svc, idx + 2, Len(svc))
         IN IF category # <<>>
            THEN MapPut(result, serviceName,
                        Append(MapGet(result, serviceName), category))
            ELSE result
    ELSE IF svc \notin DOMAIN result
         THEN MapPut(result, svc, <<Str("basic")>>)
         ELSE result

RECURSIVE ParseFrom(_, _, _)
ParseFrom(result, services, i) ==
    IF i > Len(services) THEN result
    ELSE ParseFrom(ParseToken(result, services[i]), services, i + 1)

parseServiceFilters(services) == ParseFrom(EmptyMap, services, 1)

\* hasCategory checks if a category is in the list, or if "all" is specified.
RECURSIVE HasFrom(_, _, _)
HasFrom(categories, cat, i) ==
    IF i > Len(categories) THEN FALSE
    ELSE IF categories[i] = cat \/ categories[i] = Str("all") THEN TRUE
    ELSE HasFrom(categories, cat, i + 1)

\* The loop returns after looking at the first element.
hasCategory_firstOnly(categories, cat) ==
    Len(categories) > 0 /\ (categories[1] = cat \/ categories[1] = Str("all"))

\* Exact match only: "all" is not treated as a wildcard.
hasCategory_exactOnly(categories, cat) ==
    \E i \in 1..Len(categories) : categories[i] = cat

hasCategory(categories, cat) == HasFrom(categories, cat, 1)

\* if cond { s.AddTools(...) ... }: the tool sets added, in order.
When(cond, tools) == IF cond THEN tools ELSE <<>>

Ok(tools) == [err |-> FALSE, tools |-> tools]
Fail == [err |-> TRUE, tools |-> <<>>]

VARIABLES
    tokens,          \* servicesToActivate as given by the caller
    appsErr,         \* whether apps.NewAppPlatformTool returns an error
    pc,              \* position in Register
    serviceFilters,  \* the parsed filter map
    remaining,       \* keys of serviceFilters the range loop has not done
    added,           \* the server: how often each tool set was added
    err,             \* what Register returned
    run,             \* which start of the process this is
    first,           \* what the first start returned and left on its server
    hc               \* a call of hasCategory: its arguments and its result

vars ==
    <<tokens, appsErr, pc, serviceFilters, remaining, added, err, run, first, hc>>

registerAppTools(categories) ==
    IF appsErr THEN Fail ELSE Ok(<<"apps.NewAppPlatformTool">>)

registerCommonTools == Ok(<<"common.NewRegionTools">>)

registerDropletTools(categories) ==
    Ok(When(hasCategory(categories, Str("basic")), <<"droplet.NewDropletTool">>)
       \o When(hasCategory(categories, Str("actions")),
               <<"droplet.NewDropletActionsTool">>)
       \o When(hasCategory(categories, Str("images")),
               <<"droplet.NewImageTool", "droplet.NewImageActionsTool">>)
       \o When(hasCategory(categories, Str("sizes")), <<"droplet.NewSizesTool">>))

\* "basic" and its alias "lb" gated separately, each adding the load balancers.
registerNetworkingTools_aliasTwice(categories) ==
    Ok(When(hasCategory(categories, Str("basic")),
            <<"networking.NewLoadBalancersTool">>)
       \o When(hasCategory(categories, Str("lb")),
               <<"networking.NewLoadBalancersTool">>)
       \o When(hasCategory(categories, Str("firewall")),
               <<"networking.NewFirewallTool">>)
       \o When(hasCategory(categories, Str("dns")),
               <<"networking.NewDomainsTool", "networking.NewCertificateTool">>)
       \o When(hasCategory(categories, Str("vpc")),
               <<"networking.NewVPCTool", "networking.NewVPCPeeringTool">>)
       \o When(hasCategory(categories, Str("ip")),
               <<"networking.NewReservedIPTool", "networking.NewBYOIPPrefixTool">>))

registerNetworkingTools(categories) ==
    Ok(When(hasCategory(categories, Str("basic"))
              \/ hasCategory(categories, Str("lb")),
            <<"networking.NewLoadBalancersTool">>)
       \o When(hasCategory(categories, Str("firewall")),
               <<"networking.NewFirewallTool">>)
       \o When(hasCategory(categories, Str("dns")),
               <<"networking.NewDomainsTool", "networking.NewCertificateTool">>)
       \o When(hasCategory(categories, Str("vpc")),
               <<"networking.NewVPCTool", "networking.NewVPCPeeringTool">>)
       \o When(hasCategory(categories, Str("ip")),
               <<"networking.NewReservedIPTool", "networking.NewBYOIPPrefixTool">>))

registerAccountTools(categories) ==
    Ok(When(hasCategory(categories, Str("basic"))
              \/ hasCategory(categories, Str("info")),
            <<"account.NewAccountTools">>)
       \o When(hasCategory(categories, Str("billing")),
               <<"account.NewBalanceTools", "account.NewBillingTools",
                 "account.NewInvoiceTools">>)
       \o When(hasCategory(categories, Str("keys")), <<"account.NewKeysTool">>)
       \o When(hasCategory(categories, Str("actions")),
               <<"account.NewActionTools">>))

registerSpacesTools(categories) ==
    Ok(When(hasCategory(categories, Str("basic"))
              \/ hasCategory(categories, Str("keys")),
            <<"spaces.NewSpacesKeysTool">>)
       \o When(hasCategory(categories, Str("cdn")), <<"spaces.NewCDNTool">>))

registerMarketplaceTools(categories) == Ok(<<"marketplace.NewOneClickTool">>)

registerInsightsTools(categories) ==
    Ok(When(hasCategory(categories, Str("basic"))
              \/ hasCategory(categories, Str("uptime")),
            <<"insights.NewUptimeTool", "insights.NewUptimeCheckAlertTool">>)
       \o When(hasCategory(categories, Str("alerts")),
               <<"insights.NewAlertPolicyTool">>))

registerDOKSTools(categories) == Ok(<<"doks.NewDoksTool">>)

\* The mysql gate asks for "postgresql" (a copied line).
registerDatabasesTools_copiedGate(categories) ==
    Ok(When(hasCategory(categories, Str("basic"))
              \/ hasCategory(categories, Str("cluster")),
            <<"dbaas.NewClusterTool">>)
       \o When(hasCategory(categories, Str("postgresql")),
               <<"dbaas.NewPostgreSQLTool">>)
       \o When(hasCategory(categories, Str("postgresql")), <<"dbaas.NewMysqlTool">>)
       \o When(hasCategory(categories, Str("mongodb")), <<"dbaas.NewMongoTool">>)
       \o When(hasCategory(categories, Str("redis")), <<"dbaas.NewRedisTool">>)
       \o When(hasCategory(categories, Str("kafka")), <<"dbaas.NewKafkaTool">>)
       \o When(hasCategory(categories, Str("opensearch")),
               <<"dbaas.NewOpenSearchTool">>)
       \o When(hasCategory(categories, Str("users")), <<"dbaas.NewUserTool">>)
       \o When(hasCategory(categories, Str("firewall")),
               <<"dbaas.NewFirewallTool">>))

registerDatabasesTools(categories) ==
    Ok(When(hasCategory(categories, Str("basic"))
              \/ hasCategory(categories, Str("cluster")),
            <<"dbaas.NewClusterTool">>)
       \o When(hasCategory(categories, Str("postgresql")),
               <<"dbaas.NewPostgreSQLTool">>)
       \o When(hasCategory(categories, Str("mysql")), <<"dbaas.NewMysqlTool">>)
       \o When(hasCategory(categories, Str("mongodb")), <<"dbaas.NewMongoTool">>)
       \o When(hasCategory(categories, Str("redis")), <<"dbaas.NewRedisTool">>)
       \o When(hasCategory(categories, Str("kafka")), <<"dbaas.NewKafkaTool">>)
       \o When(hasCategory(categories, Str("opensearch")),
               <<"dbaas.NewOpenSearchTool">>)
       \o When(hasCategory(categories, Str("users")), <<"dbaas.NewUserTool">>)
       \o When(hasCategory(categories, Str("firewall")),
               <<"dbaas.NewFirewallTool">>))

\* The switch of Register.
Dispatch(svc, categories) ==
    CASE svc = Str("apps") -> registerAppTools(categories)
      [] svc = Str("networking") -> registerNetworkingTools(categories)
      [] svc = Str("droplets") -> registerDropletTools(categories)
      [] svc = Str("accounts") -> registerAccountTools(categories)
      [] svc = Str("spaces") -> registerSpacesTools(categories)
      [] svc = Str("databases") -> registerDatabasesTools(categories)
      [] svc = Str("marketplace") -> registerMarketplaceTools(categories)
      [] svc = Str("insights") -> registerInsightsTools(categories)
      [] svc = Str("doks") -> registerDOKSTools(categories)
      [] OTHER -> Ok(<<>>)

\* s.AddTools(tools...), once per tool set of the list.
RECURSIVE AddTools(_, _)
AddTools(s, tools) ==
    IF tools = <<>> THEN s
    ELSE AddTools([s EXCEPT ![Head(tools)] = @ + 1], Tail(tools))

NewServer == [c \in Ctors |-> 0]

\* The values Register returns.
NoErr == [kind |-> "nil", svc |-> <<>>]
Running == [kind |-> "running", svc |-> <<>>]
Unsupported(svc) == [kind |-> "unsupported service", svc |-> svc]
FailedToRegister(svc) == [kind |-> "failed to register", svc |-> svc]

\* The default list misses the last key of the iteration.
DefaultServices_dropLast ==
    {[i \in 1..(Len(ServiceOrder) - 1) |-> p[ServiceOrder[i]]] :
        p \in Permutations(ServiceNames)}

\* for k := range supportedServices { append(servicesToActivate, k) }:
\* the keys in every order the map iteration can produce.
DefaultServices ==
    {[i \in 1..Len(ServiceOrder) |-> p[ServiceOrder[i]]] :
        p \in Permutations(ServiceNames)}

\* Tokens the caller passes.
TokenPool ==
    { Str("droplets"), WithCat("droplets", "basic"), WithCat("droplets", "all"),
      WithCat("droplets", "actions"), EmptyCat("droplets"),
      Str("networking"), WithCat("networking", "lb"),
      WithCat("networking", "all"),
      Str("apps"),
      Str("bogus"), WithCat("bogus", "all"), EmptyCat("bogus"),
      <<>> }

RECURSIVE SeqsUpTo(_, _)
SeqsUpTo(S, n) ==
    IF n = 0 THEN {<<>>}
    ELSE LET shorter == SeqsUpTo(S, n - 1)
         IN shorter \cup {Append(s, x) : s \in shorter, x \in S}

\* The bare name of every known service, in two orders.
Reverse(s) == [i \in 1..Len(s) |-> s[Len(s) + 1 - i]]
BareEnumerations == {ServiceOrder, Reverse(ServiceOrder)}

Inputs == SeqsUpTo(TokenPool, MaxTokens) \cup BareEnumerations

\* The tool sets on the server.
Activated == {c \in Ctors : added[c] > 0}

\* No call of hasCategory is under way.
NoCall == [categories |-> <<>>, cat |-> <<>>, result |-> "none"]

Init ==
    /\ tokens \in Inputs
    /\ appsErr \in BOOLEAN
    /\ pc = "start"
    /\ serviceFilters = EmptyMap
    /\ remaining = {}
    /\ added = NewServer
    /\ err = Running
    /\ run = 1
    /\ first = [err |-> Running, activated |-> {}]
    /\ hc = NoCall

\* Register up to the range loop: default of an empty argument list, parse.
RegisterParse ==
    /\ pc = "start"
    /\ \E servicesToActivate \in
           (IF Len(tokens) = 0 THEN DefaultServices ELSE {tokens}) :
          serviceFilters' = parseServiceFilters(servicesToActivate)
    /\ remaining' = DOMAIN serviceFilters'
    /\ pc' = "range"
    /\ UNCHANGED <<tokens, appsErr, added, err, run, first, hc>>

\* An unknown service is skipped instead of ending the call.
RegisterService_skipUnknown ==
    /\ pc = "range"
    /\ \E svc \in remaining :
          LET categories == serviceFilters[svc] IN
          IF svc \notin DOMAIN supportedServices
          THEN /\ remaining' = remaining \ {svc}
               /\ UNCHANGED <<pc, err, added>>
          ELSE LET r == Dispatch(svc, categories) IN
               IF r.err
               THEN /\ err' = FailedToRegister(svc)
                    /\ pc' = "done"
                    /\ UNCHANGED <<remaining, added>>
               ELSE /\ added' = AddTools(added, r.tools)
                    /\ remaining' = remaining \ {svc}
                    /\ UNCHANGED <<pc, err>>
    /\ UNCHANGED <<tokens, appsErr, serviceFilters, run, first, hc>>

\* A construction error is recorded but the loop goes on.
RegisterService_continueOnErr ==
    /\ pc = "range"
    /\ \E svc \in remaining :
          LET categories == serviceFilters[svc] IN
          IF svc \notin DOMAIN supportedServices
          THEN /\ err' = Unsupported(svc)
               /\ pc' = "done"
               /\ UNCHANGED <<remaining, added>>
          ELSE LET r == Dispatch(svc, categories) IN
               IF r.err
               THEN /\ err' = FailedToRegister(svc)
                    /\ remaining' = remaining \ {svc}
                    /\ UNCHANGED <<pc, added>>
               ELSE /\ added' = AddTools(added, r.tools)
                    /\ remaining' = remaining \ {svc}
                    /\ UNCHANGED <<pc, err>>
    /\ UNCHANGED <<tokens, appsErr, serviceFilters, run, first, hc>>

\* One iteration of "for svc, categories := range serviceFilters".
RegisterService ==
    /\ pc = "range"
    /\ \E svc \in remaining :
          LET categories == serviceFilters[svc] IN
          IF svc \notin DOMAIN supportedServices
          THEN /\ err' = Unsupported(svc)
               /\ pc' = "done"
               /\ UNCHANGED <<remaining, added>>
          ELSE LET r == Dispatch(svc, categories) IN
               IF r.err
               THEN /\ err' = FailedToRegister(svc)
                    /\ pc' = "done"
                    /\ UNCHANGED <<remaining, added>>
               ELSE /\ added' = AddTools(added, r.tools)
                    /\ remaining' = remaining \ {svc}
                    /\ UNCHANGED <<pc, err>>
    /\ UNCHANGED <<tokens, appsErr, serviceFilters, run, first, hc>>

\* nil is returned without adding the common tools.
RegisterCommon_noAdd ==
    /\ pc = "range"
    /\ remaining = {}
    /\ err' = NoErr
    /\ pc' = "done"
    /\ UNCHANGED <<tokens, appsErr, serviceFilters, remaining, added, run, first, hc>>

\* The common tools are added and nil returned from inside the loop.
RegisterCommon_insideLoop ==
    /\ pc = "range"
    /\ Cardinality(remaining) <= 1
    /\ added' = AddTools(added, registerCommonTools.tools)
    /\ err' = NoErr
    /\ pc' = "done"
    /\ UNCHANGED <<tokens, appsErr, serviceFilters, remaining, run, first, hc>>

\* After the loop: common tools, return nil.
RegisterCommon ==
    /\ pc = "range"
    /\ remaining = {}
    /\ LET r == registerCommonTools IN
       IF r.err
       THEN /\ err' = FailedToRegister(Str("common"))
            /\ UNCHANGED added
       ELSE /\ added' = AddTools(added, r.tools)
            /\ err' = NoErr
    /\ pc' = "done"
    /\ UNCHANGED <<tokens, appsErr, serviceFilters, remaining, run, first, hc>>

Next == RegisterParse \/ RegisterService \/ RegisterCommon

Spec == Init /\ [][Next]_vars

\* The process is started a second time with the same arguments and the
\* same construction outcomes, on a fresh server.
Restart ==
    /\ pc = "done"
    /\ run = 1
    /\ first' = [err |-> err, activated |-> Activated]
    /\ run' = 2
    /\ pc' = "start"
    /\ serviceFilters' = EmptyMap
    /\ remaining' = {}
    /\ added' = NewServer
    /\ err' = Running
    /\ UNCHANGED <<tokens, appsErr, hc>>

InitTwice == Init /\ tokens # <<>>

NextTwice == Next \/ Restart

SpecTwice == InitTwice /\ [][NextTwice]_vars

\* The category names each register function documents ("Categories: ..."),
\* and one name no function knows.
GateWords(svc) ==
    {"basic", "all", "other"} \cup
    (CASE svc = Str("networking") -> {"lb", "firewall", "dns", "vpc", "ip"}
       [] svc = Str("droplets") -> {"actions", "images", "sizes"}
       [] svc = Str("accounts") -> {"info", "billing", "keys", "actions"}
       [] svc = Str("spaces") -> {"keys", "cdn"}
       [] svc = Str("databases") ->
             {"cluster", "postgresql", "mysql", "mongodb", "redis", "kafka",
              "opensearch", "users", "firewall"}
       [] svc = Str("insights") -> {"uptime", "alerts"}
       [] OTHER -> {})

\* Token sequences that name one service, with every category it documents.
GateTokens(svc) == {svc} \cup {WithCat(svc[1], c) : c \in GateWords(svc)}

GateInputs == UNION {SeqsUpTo(GateTokens(svc), MaxGateTokens) : svc \in ServiceNames}

InitGates ==
    /\ tokens \in Inputs \cup GateInputs
    /\ appsErr \in BOOLEAN
    /\ pc = "start"
    /\ serviceFilters = EmptyMap
    /\ remaining = {}
    /\ added = NewServer
    /\ err = Running
    /\ run = 1
    /\ first = [err |-> Running, activated |-> {}]
    /\ hc = NoCall

SpecGates == InitGates /\ [][Next]_vars

\* Category strings handed to hasCategory: plain names, "all", and a
\* category that only starts with "all" ("all:x").
CategoryPool ==
    {Str("basic"), Str("all"), Str("lb"), Str("firewall"), <<"all", Colon, "x">>}

InitHas ==
    /\ tokens = <<>>
    /\ appsErr = FALSE
    /\ pc = "hasCategory"
    /\ serviceFilters = EmptyMap
    /\ remaining = {}
    /\ added = NewServer
    /\ err = Running
    /\ run = 1
    /\ first = [err |-> Running, activated |-> {}]
    /\ \E categories \in SeqsUpTo(CategoryPool, MaxCategories), cat \in CategoryPool :
          hc = [categories |-> categories, cat |-> cat, result |-> "none"]

\* hasCategory(categories, cat) is called and returns.
HasCategoryCall ==
    /\ pc = "hasCategory"
    /\ hc.result = "none"
    /\ hc' = [hc EXCEPT !.result =
                  IF hasCategory(hc.categories, hc.cat) THEN "true" ELSE "false"]
    /\ UNCHANGED <<tokens, appsErr, pc, serviceFilters, remaining, added, err,
                   run, first>>

SpecHas == InitHas /\ [][HasCategoryCall]_vars

(***************************************************************************)
(* Vocabulary of the properties.                                           *)
(***************************************************************************)
\* The service a token names: the token itself, or what precedes its ":".
TokenService(tok) == IF Index(tok) = -1 THEN tok ELSE SubSeq(tok, 1, Index(tok))

\* "svc": no separator.
IsBare(tok) == Index(tok) = -1

\* "svc:": a separator with nothing after it.
HasEmptyCategory(tok) == Index(tok) # -1 /\ Index(tok) + 1 = Len(tok)

Positions == 1..Len(tokens)

\* Services whose iteration of the range loop ran to its end.
Completed == (DOMAIN serviceFilters) \ remaining

UnknownKeys == (DOMAIN serviceFilters) \ ServiceNames

\* Every tool set a service defines (SERVICE_FILTERING.md, "Available
\* Categories"; the bodies of the register functions).
ServiceCtors(svc) ==
    CASE svc = Str("apps") -> AppCtors
      [] svc = Str("networking") -> NetworkingCtors
      [] svc = Str("droplets") -> DropletCtors
      [] svc = Str("accounts") -> AccountCtors
      [] svc = Str("spaces") -> SpacesCtors
      [] svc = Str("databases") -> DatabasesCtors
      [] svc = Str("marketplace") -> MarketplaceCtors
      [] svc = Str("insights") -> InsightsCtors
      [] svc = Str("doks") -> DoksCtors
      [] OTHER -> {}

\* The tool sets of a service's "basic" category (SERVICE_FILTERING.md).
BasicCtors(svc) ==
    CASE svc = Str("apps") -> {"apps.NewAppPlatformTool"}
      [] svc = Str("networking") -> {"networking.NewLoadBalancersTool"}
      [] svc = Str("droplets") -> {"droplet.NewDropletTool"}
      [] svc = Str("accounts") -> {"account.NewAccountTools"}
      [] svc = Str("spaces") -> {"spaces.NewSpacesKeysTool"}
      [] svc = Str("databases") -> {"dbaas.NewClusterTool"}
      [] svc = Str("marketplace") -> {"marketplace.NewOneClickTool"}
      [] svc = Str("insights") ->
            {"insights.NewUptimeTool", "insights.NewUptimeCheckAlertTool"}
      [] svc = Str("doks") -> {"doks.NewDoksTool"}
      [] OTHER -> {}

Range(s) == {s[i] : i \in 1..Len(s)}

(***************************************************************************)
(* C1                                                                      *)
(***************************************************************************)
\* C1 as stated: whenever a token ("svc", "svc:category" or "svc:") names a
\* service outside the catalog, Register returns the unknown-service error
\* naming that service and the loop never completes for that service.
C1_AsStated ==
    pc = "done" =>
        \A i \in Positions :
            TokenService(tokens[i]) \notin ServiceNames =>
                /\ err = Unsupported(TokenService(tokens[i]))
                /\ TokenService(tokens[i]) \notin Completed

\* C1 (amended): whenever a token "svc" or "svc:category" with a non-empty
\* category names a service outside the catalog, Register returns an error,
\* never nil: the unknown-service error naming that service or another
\* unknown service of the input, or the construction error of a service the
\* loop reached first; nothing is activated for the unknown service, and
\* what is on the server belongs to known services completed before.
C1_UnknownServiceFails ==
    pc = "done" =>
        \A i \in Positions :
            (/\ TokenService(tokens[i]) \notin ServiceNames
             /\ ~HasEmptyCategory(tokens[i])) =>
                /\ \/ /\ err.kind = "unsupported service"
                      /\ err.svc \in UnknownKeys
                      /\ \E j \in Positions : TokenService(tokens[j]) = err.svc
                   \/ /\ err.kind = "failed to register"
                      /\ err.svc \in ServiceNames
                /\ TokenService(tokens[i]) \in remaining
                /\ Activated \subseteq
                       UNION {ServiceCtors(s) : s \in Completed \cap ServiceNames}

\* An unknown service in the last position, after a known service that was
\* registered before the error.
C1_Witness ==
    /\ pc = "done"
    /\ Len(tokens) = 2
    /\ tokens[1] = Str("droplets")
    /\ tokens[2] = WithCat("bogus", "all")
    /\ err = Unsupported(Str("bogus"))
    /\ added["droplet.NewDropletTool"] = 1

(***************************************************************************)
(* C2                                                                      *)
(***************************************************************************)
\* C2 as stated: when the parsed filter map holds a service outside the
\* catalog, Register returns an error with nothing added to the server.
C2_AsStated ==
    (pc = "done" /\ UnknownKeys # {}) => (err # NoErr /\ Activated = {})

\* C2 (amended): when the parsed filter map holds a service outside the
\* catalog, Register returns an error and the server holds no tool set of
\* the common group nor of any service whose loop iteration did not
\* complete before the error; tool sets of services completed before the
\* error stay on the server.
C2_FailsWithoutCommon ==
    (pc = "done" /\ UnknownKeys # {}) =>
        /\ err.kind \in {"unsupported service", "failed to register"}
        /\ Activated \cap CommonCtors = {}
        /\ \A s \in (DOMAIN serviceFilters) \ Completed :
               Activated \cap ServiceCtors(s) = {}
        /\ Activated \subseteq UNION {ServiceCtors(s) : s \in Completed}

\* The call failed on an unknown service after registering a known one.
C2_Witness ==
    /\ pc = "done"
    /\ err.kind = "unsupported service"
    /\ Str("networking") \in Completed
    /\ "networking.NewLoadBalancersTool" \in Activated

(***************************************************************************)
(* C3                                                                      *)
(***************************************************************************)
\* C3 as stated: when Register returns nil, every service named by an input
\* token has had its activation function run without error, and the common
\* tools are on the server.
C3_AsStated ==
    (pc = "done" /\ err = NoErr) =>
        /\ \A i \in Positions : TokenService(tokens[i]) \in Completed
        /\ CommonCtors \subseteq Activated

\* C3 (amended): when Register returns nil, every service named by an input
\* token that is bare or carries a non-empty category is a known service
\* whose activation function ran without error and whose tool sets for the
\* parsed categories are on the server, and the common tools are on the
\* server; a service named only by tokens "S:" is not activated.
C3_NilMeansAllRegistered ==
    (pc = "done" /\ err = NoErr) =>
        /\ \A i \in Positions :
               ~HasEmptyCategory(tokens[i]) =>
                   LET svc == TokenService(tokens[i]) IN
                   /\ svc \in ServiceNames
                   /\ svc \in Completed
                   /\ ~Dispatch(svc, serviceFilters[svc]).err
                   /\ Range(Dispatch(svc, serviceFilters[svc]).tools)
                          \subseteq Activated
        /\ CommonCtors \subseteq Activated

\* A successful call for apps and two more services.
C3_Witness ==
    /\ pc = "done"
    /\ err = NoErr
    /\ Completed = {Str("apps"), Str("droplets"), Str("networking")}
    /\ "apps.NewAppPlatformTool" \in Activated

(***************************************************************************)
(* C4                                                                      *)
(***************************************************************************)
\* C4: after a successful Register, every service S with a token "S:all"
\* has every tool set it defines on the server, whatever other tokens for S
\* there are; and what any parsed category list activates for a service is
\* within what "all" alone activates for it.
C4_AllActivatesEverything ==
    /\ (pc = "done" /\ err = NoErr) =>
           \A i \in Positions :
               (/\ TokenService(tokens[i]) \in ServiceNames
                /\ tokens[i] = TokenService(tokens[i]) \o <<Colon, "all">>) =>
                   ServiceCtors(TokenService(tokens[i])) \subseteq Activated
    /\ pc # "start" =>
           \A s \in (DOMAIN serviceFilters) \cap ServiceNames :
               ~Dispatch(s, <<Str("all")>>).err =>
                   /\ Range(Dispatch(s, serviceFilters[s]).tools)
                          \subseteq Range(Dispatch(s, <<Str("all")>>).tools)
                   /\ Range(Dispatch(s, <<Str("all")>>).tools) = ServiceCtors(s)

\* "droplets:all" after "droplets:actions" and before a bare "droplets".
C4_Witness ==
    /\ pc = "done"
    /\ err = NoErr
    /\ tokens = <<WithCat("droplets", "actions"), WithCat("droplets", "all"),
                  Str("droplets")>>
    /\ DropletCtors \subseteq Activated

(***************************************************************************)
(* C5                                                                      *)
(***************************************************************************)
\* C5: after a successful Register, every known service with a bare token
\* (at any position) has the tool sets of its "basic" category on the server.
C5_BareLoadsBasic ==
    (pc = "done" /\ err = NoErr) =>
        \A i \in Positions :
            (IsBare(tokens[i]) /\ tokens[i] \in ServiceNames) =>
                BasicCtors(tokens[i]) \subseteq Activated

(***************************************************************************)
(* C6                                                                      *)
(***************************************************************************)
\* C6: within one Register call no tool set is added to the server more
\* than once, whatever tokens are repeated and however many tokens satisfy
\* one gate.
C6_AddedAtMostOnce == \A c \in Ctors : added[c] <= 1

\* The load balancer gate is satisfied by "basic" (bare token), by its
\* alias "lb" and by "all" at once, and by a repeated token.
C6_Witness ==
    /\ pc = "done"
    /\ err = NoErr
    /\ Str("networking") \in DOMAIN serviceFilters
    /\ Len(serviceFilters[Str("networking")]) = 3
    /\ Range(serviceFilters[Str("networking")])
           = {Str("basic"), Str("lb"), Str("all")}
    /\ added["networking.NewLoadBalancersTool"] = 1

(***************************************************************************)
(* C7                                                                      *)
(***************************************************************************)
\* C7 as stated: the common tools are on the server after every Register
\* call, also one that ends in a fatal error.
C7_AsStated == pc = "done" => CommonCtors \subseteq Activated

\* C7 (amended): the common tools are on the server, added once, after
\* every Register call that returns nil, whichever services were requested
\* and also when no service at all was registered; a call that ends in a
\* fatal error returns before the common tools are added.
C7_CommonIffNil ==
    pc = "done" =>
        /\ err = NoErr => \A c \in CommonCtors : added[c] = 1
        /\ err # NoErr => \A c \in CommonCtors : added[c] = 0

\* A successful call that registered no service: only the common tools.
C7_Witness ==
    /\ pc = "done"
    /\ err = NoErr
    /\ tokens # <<>>
    /\ serviceFilters = EmptyMap
    /\ Activated = CommonCtors

(***************************************************************************)
(* C8                                                                      *)
(***************************************************************************)
AllBasic == [s \in ServiceNames |-> <<Str("basic")>>]

IsBareEnumeration(t) == Len(t) = Cardinality(ServiceNames) /\ Range(t) = ServiceNames

\* C8: a call with zero tokens and a call with the bare name of every known
\* service parse to the same filter map (every service with "basic"), so
\* they continue alike: both return nil, or both the apps construction
\* error, and when they return nil the server holds exactly the "basic"
\* tool sets of every service plus the common tools, each added once.
C8_ZeroTokensIsBareEnumeration ==
    (pc # "start" /\ (tokens = <<>> \/ IsBareEnumeration(tokens))) =>
        /\ serviceFilters = AllBasic
        /\ pc = "done" =>
              /\ err = IF appsErr THEN FailedToRegister(Str("apps")) ELSE NoErr
              /\ err = NoErr =>
                    /\ Activated
                         = UNION {BasicCtors(s) : s \in ServiceNames}
                             \cup CommonCtors
                    /\ \A c \in Activated : added[c] = 1

\* The call with zero tokens succeeded with the basic tools of all services.
C8_Witness ==
    /\ pc = "done"
    /\ tokens = <<>>
    /\ err = NoErr
    /\ Completed = ServiceNames
    /\ Activated = UNION {BasicCtors(s) : s \in ServiceNames} \cup CommonCtors

(***************************************************************************)
(* C9                                                                      *)
(***************************************************************************)
\* C9: a service whose activation function returns a construction error is
\* never completed; Register then returns the error wrapped with that
\* service's name, and the server holds no tool set of that service, of any
\* service the loop had not reached, or of the common group.
C9_ConstructionErrorAborts ==
    /\ \A s \in Completed \cap ServiceNames : ~Dispatch(s, serviceFilters[s]).err
    /\ err.kind = "failed to register" =>
          /\ pc = "done"
          /\ err.svc \in remaining \cap ServiceNames
          /\ Dispatch(err.svc, serviceFilters[err.svc]).err
          /\ \A s \in remaining : Activated \cap ServiceCtors(s) = {}
          /\ Activated \cap CommonCtors = {}
    /\ (pc = "done" /\ err = NoErr) => remaining = {}

\* apps failed after another service was registered and before a third.
C9_Witness ==
    /\ pc = "done"
    /\ err = FailedToRegister(Str("apps"))
    /\ Cardinality(remaining) = 2
    /\ Activated # {}

(***************************************************************************)
(* C10                                                                     *)
(***************************************************************************)
\* C10: two starts with the same tokens and the same construction outcomes
\* return the same result and leave the same tool sets on the server.
C10_Deterministic ==
    (run = 2 /\ pc = "done") =>
        /\ err = first.err
        /\ Activated = first.activated

(***************************************************************************)
(* C11                                                                     *)
(***************************************************************************)
\* A gate of the category table: the category, or "all", is in the list.
Gate(C, x) == Str(x) \in Range(C) \/ Str("all") \in Range(C)

\* The tool sets gated by x (or its alias y).
Gated(C, x, group) == IF Gate(C, x) THEN group ELSE {}
Aliased(C, x, y, group) == IF Gate(C, x) \/ Gate(C, y) THEN group ELSE {}

\* The category table (spec 4.3; SERVICE_FILTERING.md, "Available Categories").
TableCtors(svc, C) ==
    CASE svc = Str("droplets") ->
            Gated(C, "basic", {"droplet.NewDropletTool"})
            \cup Gated(C, "actions", {"droplet.NewDropletActionsTool"})
            \cup Gated(C, "images",
                       {"droplet.NewImageTool", "droplet.NewImageActionsTool"})
            \cup Gated(C, "sizes", {"droplet.NewSizesTool"})
      [] svc = Str("networking") ->
            Aliased(C, "basic", "lb", {"networking.NewLoadBalancersTool"})
            \cup Gated(C, "firewall", {"networking.NewFirewallTool"})
            \cup Gated(C, "dns",
                       {"networking.NewDomainsTool", "networking.NewCertificateTool"})
            \cup Gated(C, "vpc",
                       {"networking.NewVPCTool", "networking.NewVPCPeeringTool"})
            \cup Gated(C, "ip",
                       {"networking.NewReservedIPTool",
                        "networking.NewBYOIPPrefixTool"})
      [] svc = Str("accounts") ->
            Aliased(C, "basic", "info", {"account.NewAccountTools"})
            \cup Gated(C, "billing",
                       {"account.NewBalanceTools", "account.NewBillingTools",
                        "account.NewInvoiceTools"})
            \cup Gated(C, "keys", {"account.NewKeysTool"})
            \cup Gated(C, "actions", {"account.NewActionTools"})
      [] svc = Str("spaces") ->
            Aliased(C, "basic", "keys", {"spaces.NewSpacesKeysTool"})
            \cup Gated(C, "cdn", {"spaces.NewCDNTool"})
      [] svc = Str("insights") ->
            Aliased(C, "basic", "uptime",
                    {"insights.NewUptimeTool", "insights.NewUptimeCheckAlertTool"})
            \cup Gated(C, "alerts", {"insights.NewAlertPolicyTool"})
      [] svc = Str("databases") ->
            Aliased(C, "basic", "cluster", {"dbaas.NewClusterTool"})
            \cup Gated(C, "postgresql", {"dbaas.NewPostgreSQLTool"})
            \cup Gated(C, "mysql", {"dbaas.NewMysqlTool"})
            \cup Gated(C, "mongodb", {"dbaas.NewMongoTool"})
            \cup Gated(C, "redis", {"dbaas.NewRedisTool"})
            \cup Gated(C, "kafka", {"dbaas.NewKafkaTool"})
            \cup Gated(C, "opensearch", {"dbaas.NewOpenSearchTool"})
            \cup Gated(C, "users", {"dbaas.NewUserTool"})
            \cup Gated(C, "firewall", {"dbaas.NewFirewallTool"})
      [] svc = Str("apps") -> {"apps.NewAppPlatformTool"}
      [] svc = Str("doks") -> {"doks.NewDoksTool"}
      [] svc = Str("marketplace") -> {"marketplace.NewOneClickTool"}
      [] OTHER -> {}

\* C11: after a successful Register the server holds exactly the common
\* tools and, for every service of the parsed filter map, the tool sets the
\* category table gives for its category list; nothing of a service that is
\* not in the map.
C11_ActivatedIsTable ==
    (pc = "done" /\ err = NoErr) =>
        /\ Activated =
               CommonCtors \cup
               UNION {TableCtors(s, serviceFilters[s]) : s \in DOMAIN serviceFilters}
        /\ \A s \in ServiceNames \ DOMAIN serviceFilters :
               Activated \cap ServiceCtors(s) = {}

\* Two engine-specific database categories without "basic": only their two
\* tool sets and the common tools.
C11_Witness ==
    /\ pc = "done"
    /\ err = NoErr
    /\ tokens = <<WithCat("databases", "mysql"), WithCat("databases", "users")>>
    /\ Activated = {"dbaas.NewMysqlTool", "dbaas.NewUserTool"} \cup CommonCtors

(***************************************************************************)
(* C12                                                                     *)
(***************************************************************************)
\* What follows the first ":" of a token.
TokenCategory(tok) == SubSeq(tok, Index(tok) + 2, Len(tok))

\* The token names a service and a non-empty category.
HasCategoryPart(tok) == Index(tok) # -1 /\ ~HasEmptyCategory(tok)

\* The filter map after the first k tokens; after all of them, the map
\* Register holds.
ParsedAfter(k) ==
    IF k = Len(tokens) THEN serviceFilters
    ELSE parseServiceFilters(SubSeq(tokens, 1, k))

IsPrefixOf(a, b) == Len(a) <= Len(b) /\ SubSeq(b, 1, Len(a)) = a

\* The categories of the tokens "svc:category" after position i, in order.
CategoriesAfter(svc, i) ==
    LET later == SelectSeq(SubSeq(tokens, i + 1, Len(tokens)),
                           LAMBDA t : HasCategoryPart(t) /\ TokenService(t) = svc)
    IN [n \in 1..Len(later) |-> TokenCategory(later[n])]

\* C12: a bare token for a service that no earlier token gave a list makes
\* the list <<"basic">>; every later token "S:category" appends its
\* category, so the final list is "basic" followed by the later categories;
\* and from one token to the next every service keeps its list as a prefix
\* of its new list: nothing is removed.
C12_CategoriesAccumulate ==
    (pc # "start" /\ pc # "hasCategory" /\ tokens # <<>>) =>
        /\ \A i \in Positions :
               (/\ IsBare(tokens[i])
                /\ \A j \in 1..(i - 1) :
                       TokenService(tokens[j]) = tokens[i]
                           => HasEmptyCategory(tokens[j])) =>
                   /\ ParsedAfter(i)[tokens[i]] = <<Str("basic")>>
                   /\ serviceFilters[tokens[i]]
                          = <<Str("basic")>> \o CategoriesAfter(tokens[i], i)
        /\ \A k \in 0..(Len(tokens) - 1) :
               \A s \in DOMAIN ParsedAfter(k) :
                   /\ s \in DOMAIN ParsedAfter(k + 1)
                   /\ IsPrefixOf(ParsedAfter(k)[s], ParsedAfter(k + 1)[s])
        /\ \A i \in Positions :
               HasCategoryPart(tokens[i]) =>
                   /\ TokenService(tokens[i]) \in DOMAIN serviceFilters
                   /\ TokenCategory(tokens[i])
                          \in Range(serviceFilters[TokenService(tokens[i])])

\* ["droplets", "droplets:actions", "droplets:all"]: basic, actions, all.
C12_Witness ==
    /\ pc = "range"
    /\ tokens = <<Str("droplets"), WithCat("droplets", "actions"),
                  WithCat("droplets", "all")>>
    /\ serviceFilters[Str("droplets")] = <<Str("basic"), Str("actions"), Str("all")>>

(***************************************************************************)
(* C13                                                                     *)
(***************************************************************************)
\* C13: hasCategory(categories, x) returns true exactly when x or "all" is
\* an element of categories: false for the empty list, and the same for
\* every list with the same elements, in any order and multiplicity.
C13_HasCategoryIffMember ==
    hc.result # "none" =>
        /\ hc.result = "true" <=>
               (hc.cat \in Range(hc.categories)
                \/ Str("all") \in Range(hc.categories))
        /\ hc.categories = <<>> => hc.result = "false"
        /\ \A other \in SeqsUpTo(CategoryPool, MaxCategories) :
               Range(other) = Range(hc.categories) =>
                   (hasCategory(other, hc.cat) <=> hc.result = "true")

\* "firewall" is not in the list, "all" is, behind another category.
C13_Witness ==
    /\ hc.result = "true"
    /\ hc.cat = Str("firewall")
    /\ hc.categories = <<Str("lb"), Str("all")>>
====
